---- MODULE Spec2Model ----
(***************************************************************************)
(* Model of semantic-kernel-python-webapi/main.py: the GET /chat handler,  *)
(* the closure-captured token cache built by auth_callback_factory, the    *)
(* tool schema written into the execution settings, and the completion     *)
(* round-trip driven by kernel.invoke with auto-invoked tool calls.        *)
(***************************************************************************)
EXTENDS Integers, Sequences, FiniteSets, TLC

(* ---- bounds of the model ---- *)
NumRequests == 2
MaxTime == 2
MaxLife == 2
MaxRounds == 2
MaxTools == 2

Requests == 1..NumRequests

(* ---- program constants ---- *)
CognitiveScope == "https://cognitiveservices.azure.com/.default"
SessionsScope == "https://dynamicsessions.io/.default"
Scopes == {CognitiveScope, SessionsScope}

ChatPlugin == "ChatBot"
ChatFunctionName == "Chat"
SessionsPlugin == "SessionsTool"
excluded_plugins == {"ChatBot"}

ErrPrefix == "Failed to retrieve the client auth token with messages: "

(* the two closures a request builds with auth_callback_factory *)
ClientClosure == "ad_token_provider"
ToolClosure == "auth_callback"
Closures == {ClientClosure, ToolClosure}

(* auth_token = None *)
NoToken == [id |-> <<0, "", 0>>, scope |-> "", expires_on |-> 0]

VARIABLES
  now,            \* whole-second UTC clock
  pc,             \* position of each /chat request
  auth_token,     \* the nonlocal auth_token of each closure: request x closure
  running,        \* request whose synchronous issuer call holds the event loop, 0 if none
  issuerCalls,    \* number of credential.get_token calls per request and closure
  callbackCalls,  \* number of calls of each closure's auth_callback per request
  sessions_functions, \* function metadata exposed by the SessionsPythonTool plugin
  tools,          \* req_settings.tools of each request
  completionCalls, \* completion calls made to the LLM backend per request
  toolRequests,   \* tool-call requests issued by the LLM backend per request
  execCalls,      \* calls to the execution backend per request
  tool_call,      \* name of the function of the last tool-call request per request
  tool_result,    \* the tool result last fed back to the LLM per request
  failed,         \* the failure that ended a request: issuer, LLM backend or execution backend
  errDesc,        \* description of the FunctionExecutionException that ended the request
  cae,            \* the issuer's ClientAuthenticationError behind errDesc
  returned,       \* last token value returned by each closure
  llmScopes,      \* scopes of the tokens the LLM client received
  toolScopes      \* scopes of the tokens the execution tool received

vars == <<now, pc, auth_token, running, issuerCalls, callbackCalls, sessions_functions, tools,
          completionCalls, toolRequests, execCalls, tool_call, tool_result, failed,
          errDesc, cae, returned, llmScopes, toolScopes>>

(* ---- tool schema synthesis (the lambda passed to configure) ---- *)
NoneValue == "<None>"

python_to_json_schema_type ==
  [t \in {"str", "int", "float", "bool", "list", "dict"} |->
     CASE t = "str" -> "string"
       [] t = "int" -> "integer"
       [] t = "float" -> "number"
       [] t = "bool" -> "boolean"
       [] t = "list" -> "array"
       [] t = "dict" -> "object"]

DictGetNoDefault(d, key, default) == IF key \in DOMAIN d THEN d[key] ELSE NoneValue

(* dict.get(key, default) *)
DictGet(d, key, default) == IF key \in DOMAIN d THEN d[key] ELSE default

(* x or "" *)
OrEmpty(x) == IF x = NoneValue THEN "" ELSE x

Param(n, t, d, req) == [name |-> n, type_ |-> t, description |-> d, is_required |-> req]
Func(pl, n, d, ps) == [plugin_name |-> pl, name |-> n, description |-> d, parameters |-> ps]

(* index of the last parameter carrying a name: a dict comprehension keeps the last *)
LastIndexOf(ps, n) == CHOOSE i \in DOMAIN ps :
                        /\ ps[i].name = n
                        /\ \A j \in DOMAIN ps : ps[j].name = n => j <= i

Properties(ps) ==
  [n \in {ps[i].name : i \in DOMAIN ps} |->
     [type |-> DictGet(python_to_json_schema_type, ps[LastIndexOf(ps, n)].type_, "string"),
      description |-> OrEmpty(ps[LastIndexOf(ps, n)].description)]]

RequiredNamesAll(ps) == [i \in DOMAIN ps |-> ps[i].name]

RECURSIVE RequiredNames(_)
RequiredNames(ps) ==
  IF ps = <<>> THEN <<>>
  ELSE (IF Head(ps).is_required THEN <<Head(ps).name>> ELSE <<>>) \o RequiredNames(Tail(ps))

ToolEntry(f) ==
  [type |-> "function",
   function |-> [name |-> f.name,
                 description |-> OrEmpty(f.description),
                 parameters |-> [type |-> "object",
                                 properties |-> Properties(f.parameters),
                                 required |-> RequiredNames(f.parameters)]]]

SynthesizeTools(available_functions) ==
  [i \in DOMAIN available_functions |-> ToolEntry(available_functions[i])]

(* kernel.add_function(prompt=..., plugin_name="ChatBot", function_name="Chat") *)
chat_function == Func(ChatPlugin, ChatFunctionName, NoneValue, <<>>)

(* functions registered in the kernel at the time configure runs *)
KernelFunctions(sf) == sf \o <<chat_function>>

NotExcludedAny(f) == TRUE

NotExcluded(f) == f.plugin_name \notin excluded_plugins

(* FunctionChoiceBehavior.Auto(filters=filter): config.available_functions *)
AvailableFunctions(sf) == SelectSeq(KernelFunctions(sf), NotExcluded)

(* kernel.add_plugin(sessions_tool, "SessionsTool"): the plugin's code-execution function *)
DefaultSessionsFunctions ==
  << Func(SessionsPlugin, "execute_code", "run", <<Param("code", "str", "src", TRUE)>>) >>

(* function metadata the SessionsPythonTool plugin may expose *)
SessionsCatalog ==
  { DefaultSessionsFunctions,
    << Func(SessionsPlugin, "execute_code", NoneValue,
            <<Param("n", "int", NoneValue, TRUE), Param("s", "str", "", FALSE)>>),
       Func(SessionsPlugin, "list_files", "ls", <<>>) >>,
    << Func(SessionsPlugin, "upload_file", "up",
            <<Param("path", "bytes", "p", FALSE), Param("size", "float", "z", TRUE),
              Param("force", "bool", NoneValue, TRUE)>>),
       Func(SessionsPlugin, "download_file", "",
            <<Param("names", "list", "l", TRUE), Param("opts", "dict", "o", FALSE),
              Param("to", NoneValue, "t", TRUE)>>) >> }

(* ---- token cache (auth_callback) ---- *)

NeedsRefreshAlways(tok, current_utc_timestamp) == TRUE

NeedsRefreshOnlyWhenAbsent(tok, current_utc_timestamp) == tok = NoToken

(* not auth_token or auth_token.expires_on < current_utc_timestamp *)
NeedsRefresh(tok, current_utc_timestamp) ==
  tok = NoToken \/ tok.expires_on < current_utc_timestamp

JoinFirstOnly(ms) == IF ms = <<>> THEN <<>> ELSE <<ms[1]>>

(* ' '.join(err_messages) *)
RECURSIVE Join(_)
Join(ms) ==
  IF ms = <<>> THEN <<>>
  ELSE IF Len(ms) = 1 THEN <<ms[1]>>
  ELSE <<ms[1], " ">> \o Join(Tail(ms))

(* getattr(cae, "messages", []) *)
GetMessages(e) == IF e.has_messages THEN e.messages ELSE <<>>

(* f"Failed to retrieve the client auth token with messages: {' '.join(err_messages)}" *)
ErrorDescription(e) == <<ErrPrefix>> \o Join(GetMessages(e))

(* the ClientAuthenticationError the issuer may raise, with or without a messages attribute *)
ErrorShapes == {[has_messages |-> FALSE, messages |-> <<>>],
                [has_messages |-> TRUE, messages |-> <<"m1">>],
                [has_messages |-> TRUE, messages |-> <<"m1", "m2">>]}
NoError == [has_messages |-> FALSE, messages |-> <<"-">>]

ClosureScopeSame(c) == CognitiveScope

ClosureScopeAllSessions(c) == SessionsScope

(* auth_callback_factory(scope): the scope each closure was built with *)
ClosureScope(c) == IF c = ClientClosure THEN CognitiveScope ELSE SessionsScope

(* credential.get_token(scope): the AccessToken the issuer answers with *)
IssueToken(scope, id, expires_on) == [id |-> id, scope |-> scope, expires_on |-> expires_on]

AuthPc(c) == IF c = ClientClosure THEN "llm_auth" ELSE "tool_auth"
IssuerPc(c) == IF c = ClientClosure THEN "llm_issuer" ELSE "tool_issuer"
DeliveredPcNeverResumed(c) == "suspended"

DeliveredPc(c) == IF c = ClientClosure THEN "completion" ELSE "execute"

AfterToolFailureAbort == "error"

(* where a request goes once a tool call has failed and its error was made the tool result *)
AfterToolFailure == "llm_auth"

AfterIssuerRejectRetry(c) == AuthPc(c)

(* where a request goes when the issuer rejected the token request of closure c *)
AfterIssuerReject(c) == IF c = ClientClosure THEN "error" ELSE AfterToolFailure

InitRest ==
  /\ now = 0
  /\ pc = [r \in Requests |-> "start"]
  /\ auth_token = [r \in Requests |-> [c \in Closures |-> NoToken]]
  /\ running = 0
  /\ issuerCalls = [r \in Requests |-> [c \in Closures |-> 0]]
  /\ callbackCalls = [r \in Requests |-> [c \in Closures |-> 0]]
  /\ tools = [r \in Requests |-> <<>>]
  /\ completionCalls = [r \in Requests |-> 0]
  /\ toolRequests = [r \in Requests |-> 0]
  /\ execCalls = [r \in Requests |-> 0]
  /\ tool_call = [r \in Requests |-> ""]
  /\ tool_result = [r \in Requests |-> "none"]
  /\ failed = [r \in Requests |-> "none"]
  /\ errDesc = [r \in Requests |-> <<>>]
  /\ cae = [r \in Requests |-> NoError]
  /\ returned = [r \in Requests |-> [c \in Closures |-> NoToken]]
  /\ llmScopes = {}
  /\ toolScopes = {}

(* the state when the process has started: no request received, no closure built *)
Init ==
  /\ sessions_functions = DefaultSessionsFunctions
  /\ InitRest

(* the clock advances, also while a synchronous issuer call is in flight *)
Tick ==
  /\ now < MaxTime
  /\ now' = now + 1
  /\ UNCHANGED <<callbackCalls, tool_call, failed,
                 pc, auth_token, running, issuerCalls, sessions_functions, tools,
                 completionCalls, toolRequests, execCalls, tool_result, errDesc, cae,
                 returned, llmScopes, toolScopes>>

ChatPrefetch(r) ==
  /\ running = 0
  /\ pc[r] = "start"
  /\ auth_token' = [auth_token EXCEPT ![r] =
                      [c \in Closures |-> IssueToken(ClosureScope(c), <<r, c, 1>>, now + 1)]]
  /\ issuerCalls' = [issuerCalls EXCEPT ![r] = [c \in Closures |-> 1]]
  /\ tools' = [tools EXCEPT ![r] = SynthesizeTools(AvailableFunctions(sessions_functions))]
  /\ tool_result' = [tool_result EXCEPT ![r] = "none"]
  /\ pc' = [pc EXCEPT ![r] = "llm_auth"]
  /\ UNCHANGED <<callbackCalls, tool_call, failed,
                 now, running, sessions_functions, completionCalls,
                 toolRequests, execCalls, errDesc, cae, returned, llmScopes, toolScopes>>

ChatSharedHistory(r) ==
  /\ running = 0
  /\ pc[r] = "start"
  /\ auth_token' = [auth_token EXCEPT ![r] = [c \in Closures |-> NoToken]]
  /\ tools' = [tools EXCEPT ![r] = SynthesizeTools(AvailableFunctions(sessions_functions))]
  /\ tool_result' = [tool_result EXCEPT ![r] =
                       IF \E q \in Requests : tool_result[q] # "none"
                       THEN tool_result[CHOOSE q \in Requests : tool_result[q] # "none"]
                       ELSE "none"]
  /\ pc' = [pc EXCEPT ![r] = "llm_auth"]
  /\ UNCHANGED <<callbackCalls, tool_call, failed,
                 now, running, issuerCalls, sessions_functions, completionCalls,
                 toolRequests, execCalls, errDesc, cae, returned, llmScopes, toolScopes>>

(* chat(message) up to the await of kernel.invoke: kernel, client, plugin, chat
   function, execution settings with the synthesized tools, empty history *)
Chat(r) ==
  /\ running = 0
  /\ pc[r] = "start"
  /\ auth_token' = [auth_token EXCEPT ![r] = [c \in Closures |-> NoToken]]
  /\ tools' = [tools EXCEPT ![r] = SynthesizeTools(AvailableFunctions(sessions_functions))]
  /\ tool_result' = [tool_result EXCEPT ![r] = "none"]
  /\ pc' = [pc EXCEPT ![r] = "llm_auth"]
  /\ UNCHANGED <<callbackCalls, tool_call, failed,
                 now, running, issuerCalls, sessions_functions, completionCalls,
                 toolRequests, execCalls, errDesc, cae, returned, llmScopes, toolScopes>>

(* the caller of closure c receives the token: the LLM client starts the completion
   call, the execution tool posts the code to the execution backend *)
Deliver(r, c, tok) ==
  /\ pc' = [pc EXCEPT ![r] = DeliveredPc(c)]
  /\ completionCalls' = [completionCalls EXCEPT ![r] = @ + (IF c = ClientClosure THEN 1 ELSE 0)]
  /\ execCalls' = [execCalls EXCEPT ![r] = @ + (IF c = ClientClosure THEN 0 ELSE 1)]
  /\ llmScopes' = IF c = ClientClosure THEN llmScopes \cup {tok.scope} ELSE llmScopes
  /\ toolScopes' = IF c = ClientClosure THEN toolScopes ELSE toolScopes \cup {tok.scope}
  /\ returned' = [returned EXCEPT ![r][c] = tok]

(* auth_callback, lines 37-40 and 51: the cached token is returned *)
CallbackCached(r, c) ==
  /\ running = 0
  /\ pc[r] = AuthPc(c)
  /\ callbackCalls' = [callbackCalls EXCEPT ![r][c] = @ + 1]
  /\ ~NeedsRefresh(auth_token[r][c], now)
  /\ Deliver(r, c, auth_token[r][c])
  /\ UNCHANGED <<tool_call, failed,
                 now, auth_token, running, issuerCalls, sessions_functions, tools,
                 toolRequests, tool_result, errDesc, cae>>

(* auth_callback, lines 37-44: the synchronous credential.get_token(scope) call starts *)
CallbackRefresh(r, c) ==
  /\ running = 0
  /\ pc[r] = AuthPc(c)
  /\ callbackCalls' = [callbackCalls EXCEPT ![r][c] = @ + 1]
  /\ NeedsRefresh(auth_token[r][c], now)
  /\ pc' = [pc EXCEPT ![r] = IssuerPc(c)]
  /\ running' = r
  /\ issuerCalls' = [issuerCalls EXCEPT ![r][c] = @ + 1]
  /\ UNCHANGED <<tool_call, failed,
                 now, auth_token, sessions_functions, tools, completionCalls,
                 toolRequests, execCalls, tool_result, errDesc, cae, returned,
                 llmScopes, toolScopes>>

IssuerReturnsNoStore(r, c, life) ==
  /\ running = r
  /\ pc[r] = IssuerPc(c)
  /\ Deliver(r, c, IssueToken(ClosureScope(c), <<r, c, issuerCalls[r][c]>>, now + life))
  /\ running' = 0
  /\ UNCHANGED <<callbackCalls, tool_call, failed, auth_token,
                 now, issuerCalls, sessions_functions, tools, toolRequests,
                 tool_result, errDesc, cae>>

(* auth_callback, lines 44 and 51: the issuer answers, the slot is overwritten *)
IssuerReturns(r, c, life) ==
  /\ running = r
  /\ pc[r] = IssuerPc(c)
  /\ LET tok == IssueToken(ClosureScope(c), <<r, c, issuerCalls[r][c]>>, now + life) IN
       /\ auth_token' = [auth_token EXCEPT ![r][c] = tok]
       /\ Deliver(r, c, tok)
  /\ running' = 0
  /\ UNCHANGED <<callbackCalls, tool_call, failed,
                 now, issuerCalls, sessions_functions, tools, toolRequests,
                 tool_result, errDesc, cae>>

IssuerRejectsCachesFailure(r, c, e) ==
  /\ running = r
  /\ pc[r] = IssuerPc(c)
  /\ running' = 0
  /\ cae' = [cae EXCEPT ![r] = IF c = ClientClosure THEN e ELSE @]
  /\ errDesc' = [errDesc EXCEPT ![r] = IF c = ClientClosure THEN ErrorDescription(e) ELSE @]
  /\ failed' = [failed EXCEPT ![r] = IF c = ClientClosure THEN "llm_issuer" ELSE @]
  /\ pc' = [pc EXCEPT ![r] = AfterIssuerReject(c)]
  /\ tool_result' = [tool_result EXCEPT ![r] = IF c = ToolClosure THEN "auth_fail" ELSE @]
  /\ auth_token' = [auth_token EXCEPT ![r][c] =
                      IssueToken(ClosureScope(c), <<r, c, 0>>, now + MaxLife)]
  /\ UNCHANGED <<callbackCalls, tool_call,
                 now, issuerCalls, sessions_functions, tools,
                 completionCalls, toolRequests, execCalls, returned, llmScopes, toolScopes>>

(* auth_callback, lines 45-49: the issuer rejects, FunctionExecutionException is raised;
   raised in the LLM client it leaves kernel.invoke and chat, raised in the tool it is
   the failure of that tool call *)
IssuerRejects(r, c, e) ==
  /\ running = r
  /\ pc[r] = IssuerPc(c)
  /\ running' = 0
  /\ cae' = [cae EXCEPT ![r] = IF c = ClientClosure THEN e ELSE @]
  /\ errDesc' = [errDesc EXCEPT ![r] = IF c = ClientClosure THEN ErrorDescription(e) ELSE @]
  /\ failed' = [failed EXCEPT ![r] = IF c = ClientClosure THEN "llm_issuer" ELSE @]
  /\ pc' = [pc EXCEPT ![r] = AfterIssuerReject(c)]
  /\ tool_result' = [tool_result EXCEPT ![r] = IF c = ToolClosure THEN "auth_fail" ELSE @]
  /\ UNCHANGED <<callbackCalls, tool_call,
                 now, auth_token, issuerCalls, sessions_functions, tools,
                 completionCalls, toolRequests, execCalls, returned, llmScopes, toolScopes>>

(* kernel.invoke: the LLM backend answers with the final text; chat returns {"output": ...} *)
LLMText(r) ==
  /\ running = 0
  /\ pc[r] = "completion"
  /\ pc' = [pc EXCEPT ![r] = "ok"]
  /\ UNCHANGED <<callbackCalls, tool_call, failed,
                 now, auth_token, running, issuerCalls, sessions_functions, tools,
                 completionCalls, toolRequests, execCalls, tool_result, errDesc, cae,
                 returned, llmScopes, toolScopes>>

LLMToolCallNotInvoked(r, i) ==
  /\ running = 0
  /\ pc[r] = "completion"
  /\ toolRequests[r] < MaxRounds
  /\ i \in DOMAIN tools[r]
  /\ tool_call' = [tool_call EXCEPT ![r] = tools[r][i].function.name]
  /\ toolRequests' = [toolRequests EXCEPT ![r] = @ + 1]
  /\ pc' = [pc EXCEPT ![r] = "llm_auth"]
  /\ UNCHANGED <<callbackCalls, failed,
                 now, auth_token, running, issuerCalls, sessions_functions, tools,
                 completionCalls, execCalls, tool_result, errDesc, cae,
                 returned, llmScopes, toolScopes>>

(* kernel.invoke with auto_invoke: the LLM backend answers with a tool-call request *)
LLMToolCall(r, i) ==
  /\ running = 0
  /\ pc[r] = "completion"
  /\ toolRequests[r] < MaxRounds
  /\ i \in DOMAIN tools[r]
  /\ tool_call' = [tool_call EXCEPT ![r] = tools[r][i].function.name]
  /\ toolRequests' = [toolRequests EXCEPT ![r] = @ + 1]
  /\ pc' = [pc EXCEPT ![r] = "tool_auth"]
  /\ UNCHANGED <<callbackCalls, failed,
                 now, auth_token, running, issuerCalls, sessions_functions, tools,
                 completionCalls, execCalls, tool_result, errDesc, cae,
                 returned, llmScopes, toolScopes>>

(* kernel.invoke raises: the LLM backend failed; the exception leaves chat *)
LLMFails(r) ==
  /\ running = 0
  /\ pc[r] = "completion"
  /\ failed' = [failed EXCEPT ![r] = "llm"]
  /\ pc' = [pc EXCEPT ![r] = "error"]
  /\ UNCHANGED <<callbackCalls, tool_call,
                 now, auth_token, running, issuerCalls, sessions_functions, tools,
                 completionCalls, toolRequests, execCalls, tool_result, errDesc, cae,
                 returned, llmScopes, toolScopes>>

(* the execution backend returns the result of the tool call, fed back to the LLM *)
ExecReturns(r) ==
  /\ running = 0
  /\ pc[r] = "execute"
  /\ tool_result' = [tool_result EXCEPT ![r] = "ok"]
  /\ pc' = [pc EXCEPT ![r] = "llm_auth"]
  /\ UNCHANGED <<callbackCalls, tool_call, failed,
                 now, auth_token, running, issuerCalls, sessions_functions, tools,
                 completionCalls, toolRequests, execCalls, errDesc, cae,
                 returned, llmScopes, toolScopes>>

(* the execution backend reports the failure of this tool call *)
ExecToolFailure(r) ==
  /\ running = 0
  /\ pc[r] = "execute"
  /\ tool_result' = [tool_result EXCEPT ![r] = "fail"]
  /\ pc' = [pc EXCEPT ![r] = AfterToolFailure]
  /\ UNCHANGED <<callbackCalls, tool_call, failed,
                 now, auth_token, running, issuerCalls, sessions_functions, tools,
                 completionCalls, toolRequests, execCalls, errDesc, cae,
                 returned, llmScopes, toolScopes>>

(* kernel.invoke raises while the execution call is in flight: unrecoverable error *)
ExecUnrecoverable(r) ==
  /\ running = 0
  /\ pc[r] = "execute"
  /\ failed' = [failed EXCEPT ![r] = "exec"]
  /\ pc' = [pc EXCEPT ![r] = "error"]
  /\ UNCHANGED <<callbackCalls, tool_call,
                 now, auth_token, running, issuerCalls, sessions_functions, tools,
                 completionCalls, toolRequests, execCalls, tool_result, errDesc, cae,
                 returned, llmScopes, toolScopes>>

Next ==
  \/ Tick
  \/ \E r \in Requests : Chat(r)
  \/ \E r \in Requests, c \in Closures : CallbackCached(r, c)
  \/ \E r \in Requests, c \in Closures : CallbackRefresh(r, c)
  \/ \E r \in Requests, c \in Closures, life \in 1..MaxLife : IssuerReturns(r, c, life)
  \/ \E r \in Requests, c \in Closures, e \in ErrorShapes : IssuerRejects(r, c, e)
  \/ \E r \in Requests : LLMText(r)
  \/ \E r \in Requests, i \in 1..MaxTools : LLMToolCall(r, i)
  \/ \E r \in Requests : LLMFails(r)
  \/ \E r \in Requests : ExecReturns(r)
  \/ \E r \in Requests : ExecToolFailure(r)
  \/ \E r \in Requests : ExecUnrecoverable(r)

Spec == Init /\ [][Next]_vars

(* the steps of the handler of request r, on the event loop of the one worker *)
RequestStep(r) ==
  \/ Chat(r)
  \/ \E c \in Closures : CallbackCached(r, c) \/ CallbackRefresh(r, c)
  \/ \E c \in Closures, life \in 1..MaxLife : IssuerReturns(r, c, life)
  \/ \E c \in Closures, e \in ErrorShapes : IssuerRejects(r, c, e)
  \/ LLMText(r) \/ LLMFails(r)
  \/ \E i \in 1..MaxTools : LLMToolCall(r, i)
  \/ ExecReturns(r) \/ ExecToolFailure(r) \/ ExecUnrecoverable(r)

(* the ClientAuthenticationError and the token lifetime of the issuer in FairNext *)
FairError == [has_messages |-> TRUE, messages |-> <<"m1", "m2">>]
FairLife == 1

(* the steps of Next with the issuer's answers narrowed to one lifetime, the shortest,
   and one error, and the tool the LLM backend asks for to the first one: every branch
   of the handler and of the callback stays reachable *)
FairNext ==
  \/ Tick
  \/ \E r \in Requests : Chat(r)
  \/ \E r \in Requests, c \in Closures : CallbackCached(r, c)
  \/ \E r \in Requests, c \in Closures : CallbackRefresh(r, c)
  \/ \E r \in Requests, c \in Closures : IssuerReturns(r, c, FairLife)
  \/ \E r \in Requests, c \in Closures : IssuerRejects(r, c, FairError)
  \/ \E r \in Requests : LLMText(r)
  \/ \E r \in Requests : LLMToolCall(r, 1)
  \/ \E r \in Requests : LLMFails(r)
  \/ \E r \in Requests : ExecReturns(r)
  \/ \E r \in Requests : ExecToolFailure(r)
  \/ \E r \in Requests : ExecUnrecoverable(r)

(* the event loop runs every handler that can take a step; every issuer, completion and
   execution call returns; the clock may stop *)
FairSpec == Init /\ [][FairNext]_vars /\ \A r \in Requests : WF_vars(RequestStep(r))

(* ---- the schema synthesizer over a catalog of plugin metadata ---- *)
FirstRequest == 1

SchemaInit ==
  /\ sessions_functions \in SessionsCatalog
  /\ InitRest

SchemaNext ==
  \/ Tick
  \/ \E r \in Requests : Chat(r)
  \/ \E c \in Closures : CallbackCached(FirstRequest, c)
  \/ \E c \in Closures : CallbackRefresh(FirstRequest, c)
  \/ \E c \in Closures, life \in 1..MaxLife : IssuerReturns(FirstRequest, c, life)
  \/ \E c \in Closures, e \in ErrorShapes : IssuerRejects(FirstRequest, c, e)
  \/ LLMText(FirstRequest)
  \/ \E i \in 1..MaxTools : LLMToolCall(FirstRequest, i)
  \/ LLMFails(FirstRequest)
  \/ ExecReturns(FirstRequest)
  \/ ExecToolFailure(FirstRequest)
  \/ ExecUnrecoverable(FirstRequest)

SchemaSpec == SchemaInit /\ [][SchemaNext]_vars

(* ---- properties ---- *)

(* t lies inside the validity window of a held token *)
Live(tok, t) == tok # NoToken /\ t < tok.expires_on

(* the step in which request r calls the auth_callback of closure c *)
CallStep(r, c) == pc[r] = AuthPc(c) /\ pc'[r] # AuthPc(c)

(* the step in which the call returns a token to its caller *)
ReturnStep(r, c) == pc[r] \in {AuthPc(c), IssuerPc(c)} /\ pc'[r] = DeliveredPc(c)

InFlight(r) == pc[r] \notin {"start", "ok", "error"}

(* C1: a call of the auth callback that finds a cached token with now >= expires_on
   (now = expires_on included) does not return the cached token but requests a fresh
   one from the issuer. *)
C1_ExpiredNeverReturned ==
  [][\A r \in Requests, c \in Closures :
       (CallStep(r, c) /\ auth_token[r][c] # NoToken /\ now >= auth_token[r][c].expires_on)
         => (/\ pc'[r] = IssuerPc(c)
             /\ issuerCalls'[r][c] = issuerCalls[r][c] + 1)]_vars

(* C2: a second call of a closure's auth callback made while the token its previous
   call returned is inside its validity window returns the identical token value and
   makes no issuer call. *)
C2_CachedWithinWindow ==
  [][\A r \in Requests, c \in Closures :
       (CallStep(r, c) /\ Live(returned[r][c], now))
         => (/\ pc'[r] = DeliveredPc(c)
             /\ returned'[r][c] = returned[r][c]
             /\ issuerCalls'[r][c] = issuerCalls[r][c])]_vars

(* a second call of a closure was answered from its cache inside the validity window *)
C2_Witness ==
  \E r \in Requests :
     /\ pc[r] = "completion"
     /\ completionCalls[r] = 2
     /\ issuerCalls[r][ClientClosure] = 1
     /\ Live(returned[r][ClientClosure], now)

(* C3: a token obtained for a scope while handling one /chat request is reused by any
   later or concurrent /chat request that needs the scope inside the validity window:
   that request makes no issuer call for the scope. *)
C3_SharedAcrossRequests ==
  [][\A r \in Requests, c \in Closures :
       (/\ CallStep(r, c)
        /\ \E r2 \in Requests \ {r}, c2 \in Closures :
              /\ Live(auth_token[r2][c2], now)
              /\ auth_token[r2][c2].scope = ClosureScope(c))
         => issuerCalls'[r][c] = issuerCalls[r][c]]_vars

(* C4: across all requests in flight there is at most one live cached token per scope:
   no two cache slots hold distinct live tokens for the same scope. *)
C4_OneLiveTokenPerScope ==
  \A r1 \in Requests, r2 \in Requests, c1 \in Closures, c2 \in Closures :
     (/\ InFlight(r1) /\ InFlight(r2)
      /\ Live(auth_token[r1][c1], now) /\ Live(auth_token[r2][c2], now)
      /\ auth_token[r1][c1].scope = auth_token[r2][c2].scope)
       => auth_token[r1][c1] = auth_token[r2][c2]

(* C5: a call made after the cached token's expires_on has passed makes exactly one
   issuer call; the token the issuer answers with overwrites the slot and is the value
   returned. *)
C5_RefreshAfterExpiry ==
  [][\A r \in Requests, c \in Closures :
       /\ (CallStep(r, c) /\ auth_token[r][c] # NoToken /\ now > auth_token[r][c].expires_on)
            => (/\ pc'[r] = IssuerPc(c)
                /\ issuerCalls'[r][c] = issuerCalls[r][c] + 1)
       /\ pc[r] = IssuerPc(c)
            => (/\ issuerCalls'[r][c] = issuerCalls[r][c]
                /\ pc'[r] = DeliveredPc(c)
                     => (/\ returned'[r][c] # auth_token[r][c]
                         /\ returned'[r][c].id = <<r, c, issuerCalls[r][c]>>
                         /\ auth_token'[r][c] = returned'[r][c]))]_vars

(* a closure whose token had expired was called again and returned a second token *)
C5_Witness ==
  \E r \in Requests, c \in Closures :
     /\ pc[r] = DeliveredPc(c)
     /\ issuerCalls[r][c] = 2
     /\ returned[r][c].id = <<r, c, 2>>

(* C6: the token a closure returns was issued for that closure's scope: the LLM client
   only receives cognitive-services tokens, the execution tool only sessions tokens. *)
C6_ScopeIsolation ==
  /\ llmScopes \subseteq {CognitiveScope}
  /\ toolScopes \subseteq {SessionsScope}
  /\ \A r \in Requests :
       /\ returned[r][ClientClosure] # NoToken
            => returned[r][ClientClosure].scope = CognitiveScope
       /\ returned[r][ToolClosure] # NoToken
            => returned[r][ToolClosure].scope = SessionsScope

(* both callers have received a token *)
C6_Witness ==
  /\ llmScopes = {CognitiveScope}
  /\ toolScopes = {SessionsScope}
  /\ \E r \in Requests : returned[r][ClientClosure] # NoToken /\ returned[r][ToolClosure] # NoToken

(* names of the registered functions that belong to an excluded plugin *)
ExcludedFunctionNames ==
  {KernelFunctions(sessions_functions)[i].name :
     i \in {j \in DOMAIN KernelFunctions(sessions_functions) :
              KernelFunctions(sessions_functions)[j].plugin_name \in excluded_plugins}}

(* C7: the tools list of the execution settings holds no function of an excluded
   plugin; ChatBot.Chat is never in it and is never requested as a tool. *)
C7_SelfExclusion ==
  \A r \in Requests :
     pc[r] # "start" =>
       /\ \A i \in DOMAIN tools[r] :
             /\ tools[r][i].function.name \notin ExcludedFunctionNames
             /\ tools[r][i].function.name # ChatFunctionName
       /\ tool_call[r] # ChatFunctionName

(* a request with a two-function plugin registered had a tool requested *)
C7_Witness ==
  \E r \in Requests : Len(tools[r]) = 2 /\ tool_call[r] # "" /\ pc[r] = "ok"

(* the description is the prefix followed by the issuer's messages, each present,
   in order, separated by single spaces *)
DescribesMessages(desc, ms) ==
  /\ Len(desc) = 1 + (IF ms = <<>> THEN 0 ELSE 2 * Len(ms) - 1)
  /\ desc[1] = ErrPrefix
  /\ \A i \in DOMAIN ms : desc[2 * i] = ms[i]
  /\ \A i \in 1..(Len(ms) - 1) : desc[2 * i + 1] = " "

IssuerMessages(r) == IF cae[r].has_messages THEN cae[r].messages ELSE <<>>

(* C8 as stated: when the issuer rejects the cognitive-services token request the
   error carries the joined messages and the request aborts without any completion
   call having been attempted. *)
C8_NoCompletionAtAll ==
  \A r \in Requests :
     failed[r] = "llm_issuer" =>
       /\ pc[r] = "error"
       /\ DescribesMessages(errDesc[r], IssuerMessages(r))
       /\ completionCalls[r] = 0

(* C8 amended: ... and the request aborts without the completion call the token was
   requested for being attempted: every completion call of the request had already
   returned with a tool-call request. *)
C8_NoCompletionForRejectedToken ==
  \A r \in Requests :
     failed[r] = "llm_issuer" =>
       /\ pc[r] = "error"
       /\ DescribesMessages(errDesc[r], IssuerMessages(r))
       /\ completionCalls[r] = toolRequests[r]

(* the issuer rejected the LLM client's token request with two messages *)
C8_Witness ==
  \E r \in Requests : failed[r] = "llm_issuer" /\ Len(IssuerMessages(r)) = 2

(* the issuer rejected the token request of the last tool call of request r *)
ToolTokenRejected(r) == tool_result[r] = "auth_fail"

(* a get_token call makes at most one issuer call and is not retried *)
OneIssuerCallPerGetToken ==
  \A r \in Requests, c \in Closures :
     /\ issuerCalls'[r][c] # issuerCalls[r][c]
          => (/\ pc[r] = AuthPc(c)
              /\ pc'[r] = IssuerPc(c)
              /\ issuerCalls'[r][c] = issuerCalls[r][c] + 1)
     /\ (pc[r] = IssuerPc(c) /\ pc'[r] # IssuerPc(c)) => pc'[r] # AuthPc(c)

(* a request that ended in the error outcome makes no further call *)
NoCallAfterError ==
  \A r \in Requests :
     pc[r] = "error"
       => (/\ pc'[r] = "error"
           /\ issuerCalls'[r] = issuerCalls[r]
           /\ completionCalls'[r] = completionCalls[r]
           /\ execCalls'[r] = execCalls[r])

(* C9 as stated: a get_token call makes at most one issuer call, and after any failed
   step (issuer, LLM backend, execution backend) the request makes no further call
   and ends in the error outcome. *)
C9_AnyFailureAborts ==
  /\ [](\A r \in Requests : (failed[r] # "none" \/ ToolTokenRejected(r)) => pc[r] = "error")
  /\ [][OneIssuerCallPerGetToken /\ NoCallAfterError]_vars

(* C9 amended: a get_token call makes at most one issuer call; after the issuer rejects
   the LLM client's token request, or the LLM backend or the execution backend fails
   unrecoverably, the request makes no further call and ends in the error outcome; a
   rejected token request of the execution tool is not retried either, that tool call
   makes no execution call and its failure goes back to the LLM as the tool result. *)
C9_NoRetries ==
  /\ [](\A r \in Requests : failed[r] # "none" => pc[r] = "error")
  /\ [][/\ OneIssuerCallPerGetToken
        /\ NoCallAfterError
        /\ \A r \in Requests :
             (pc[r] = "tool_issuer" /\ pc'[r] \notin {"tool_issuer", "execute"})
               => (/\ pc'[r] = "llm_auth"
                   /\ tool_result'[r] = "auth_fail"
                   /\ execCalls'[r] = execCalls[r])]_vars

(* a request ended in error after completion and execution calls had been made *)
C9_Witness ==
  \E r \in Requests :
     /\ pc[r] = "error"
     /\ failed[r] \in {"llm_issuer", "llm", "exec"}
     /\ completionCalls[r] >= 1
     /\ execCalls[r] >= 1

(* C10: a tool-call failure reported by the execution backend does not abort the
   request: it is the tool result handed back to the LLM and the round-trip goes on,
   up to a 200 response, unless the LLM backend, its credential or the execution
   backend fails unrecoverably. *)
C10_ToolFailureIsData ==
  \A r \in Requests :
     /\ pc[r] = "error" => failed[r] \in {"llm_issuer", "llm", "exec"}
     /\ (tool_result[r] = "fail" /\ failed[r] = "none")
          => pc[r] \in {"llm_auth", "llm_issuer", "completion", "tool_auth",
                        "tool_issuer", "execute", "ok"}

(* a request whose last tool call failed ended with the 200 response *)
C10_Witness ==
  \E r \in Requests : pc[r] = "ok" /\ tool_result[r] = "fail" /\ failed[r] = "none"

(* the request is inside the completion round-trip started by kernel.invoke *)
InRoundTrip(r) == pc[r] \in {"llm_auth", "llm_issuer", "completion", "tool_auth",
                             "tool_issuer", "execute"}

(* C11: no issuer call happens while the client is built, the tool and the chat
   function are registered and the settings are built; a request's issuer calls are
   made only once kernel.invoke has started, by a call of one of its callbacks. *)
C11_LazyCredentials ==
  /\ [](\A r \in Requests, c \in Closures : pc[r] = "start" => issuerCalls[r][c] = 0)
  /\ [][\A r \in Requests, c \in Closures :
          /\ pc[r] = "start" => issuerCalls'[r][c] = 0
          /\ issuerCalls'[r][c] # issuerCalls[r][c] => pc[r] = AuthPc(c)]_vars

(* a request has built its client, tool and settings and entered kernel.invoke
   without any issuer call so far *)
C11_Witness ==
  \E r \in Requests :
     /\ pc[r] = "llm_auth"
     /\ tools[r] # <<>>
     /\ completionCalls[r] = 0
     /\ \A c \in Closures : issuerCalls[r][c] = 0 /\ auth_token[r][c] = NoToken

(* invocations of the execution tool: each starts by calling the tool's auth_callback *)
ToolInvocations(r) == callbackCalls[r][ToolClosure]

(* C12: the execution tool is invoked only inside the round-trip, once per tool-call
   request of the LLM backend: never more invocations than requests, as many when the
   request has ended, and no invocation or execution call before the round-trip starts
   or after it has returned. *)
C12_ToolOnlyFromAutoInvoke ==
  /\ [](\A r \in Requests :
          /\ ToolInvocations(r) <= toolRequests[r]
          /\ toolRequests[r] <= ToolInvocations(r) + 1
          /\ execCalls[r] <= ToolInvocations(r)
          /\ pc[r] \in {"ok", "error"} => ToolInvocations(r) = toolRequests[r]
          /\ pc[r] = "start" => (ToolInvocations(r) = 0 /\ execCalls[r] = 0))
  /\ [][\A r \in Requests :
          ~InRoundTrip(r) => (/\ callbackCalls'[r][ToolClosure] = callbackCalls[r][ToolClosure]
                              /\ execCalls'[r] = execCalls[r])]_vars

(* one request ended after exactly one tool-call request and one invocation, another
   ended without any *)
C12_Witness ==
  \E r \in Requests, r2 \in Requests :
     /\ pc[r] = "ok" /\ toolRequests[r] = 1 /\ ToolInvocations(r) = 1 /\ execCalls[r] = 1
     /\ pc[r2] = "ok" /\ toolRequests[r2] = 0 /\ ToolInvocations(r2) = 0 /\ execCalls[r2] = 0

(* the JSON type the mapping table of the schema gives a Python type tag *)
TableImage(tag) ==
  CASE tag = "str" -> "string"
    [] tag = "int" -> "integer"
    [] tag = "float" -> "number"
    [] tag = "bool" -> "boolean"
    [] tag = "list" -> "array"
    [] tag = "dict" -> "object"
    [] OTHER -> "string"

(* the request has run the schema synthesis of configure *)
Synthesized(r) == pc[r] # "start"

(* C13: schema synthesis yields an entry for every function of the execution plugin,
   whatever its parameters' type tags; each parameter's JSON type is the table image
   of its tag, and "string" for a tag outside the table or a missing tag. *)
C13_SynthesisTotal ==
  \A r \in Requests :
    Synthesized(r) =>
      /\ Len(tools[r]) = Len(sessions_functions)
      /\ \A i \in DOMAIN sessions_functions :
           /\ tools[r][i].type = "function"
           /\ tools[r][i].function.name = sessions_functions[i].name
           /\ tools[r][i].function.parameters.type = "object"
           /\ \A k \in DOMAIN sessions_functions[i].parameters :
                LET prm == sessions_functions[i].parameters[k]
                    props == tools[r][i].function.parameters.properties
                IN /\ prm.name \in DOMAIN props
                   /\ props[prm.name].type = TableImage(prm.type_)
                   /\ props[prm.name].type \in {"string", "integer", "number", "boolean",
                                                "array", "object"}

(* a request synthesized the schema of a function with a missing tag, an unknown tag
   and a tag of the table *)
C13_Witness ==
  \E r \in Requests, i \in DOMAIN sessions_functions :
    /\ Synthesized(r)
    /\ \E k1 \in DOMAIN sessions_functions[i].parameters,
          k2 \in DOMAIN sessions_functions[i].parameters :
         LET p1 == sessions_functions[i].parameters[k1]
             p2 == sessions_functions[i].parameters[k2]
             props == tools[r][i].function.parameters.properties
         IN /\ p1.type_ = NoneValue /\ props[p1.name].type = "string"
            /\ p2.type_ = "list" /\ props[p2.name].type = "array"
    /\ \E j \in DOMAIN sessions_functions : \E k \in DOMAIN sessions_functions[j].parameters :
         LET p3 == sessions_functions[j].parameters[k]
         IN /\ p3.type_ = "bytes"
            /\ tools[r][j].function.parameters.properties[p3.name].type = "string"

IsRequired(p) == p.is_required

(* C14: the required list of every synthesized function is the subsequence of its
   parameter names whose required flag is true, in declaration order; a function
   without parameters has empty properties and an empty required list. *)
C14_RequiredInOrder ==
  \A r \in Requests :
    Synthesized(r) =>
      \A i \in DOMAIN sessions_functions :
        LET ps == sessions_functions[i].parameters
            sel == SelectSeq(ps, IsRequired)
            req == tools[r][i].function.parameters.required
            props == tools[r][i].function.parameters.properties
        IN /\ Len(req) = Len(sel)
           /\ \A k \in DOMAIN sel : req[k] = sel[k].name
           /\ \A k \in DOMAIN ps : ~ps[k].is_required =>
                                     \A m \in DOMAIN req : req[m] # ps[k].name
           /\ ps = <<>> => (DOMAIN props = {} /\ req = <<>>)

(* a request synthesized a function without parameters and a function whose required
   list leaves out an optional parameter *)
C14_Witness ==
  \E r \in Requests, i \in DOMAIN sessions_functions, j \in DOMAIN sessions_functions :
    /\ Synthesized(r)
    /\ sessions_functions[i].parameters = <<>>
    /\ tools[r][i].function.parameters.required = <<>>
    /\ DOMAIN tools[r][i].function.parameters.properties = {}
    /\ Len(sessions_functions[j].parameters) = 2
    /\ tools[r][j].function.parameters.required = <<"n">>

(* request r waits for the issuer to answer a token request *)
AwaitsIssuer(r) == \E c \in Closures : pc[r] = IssuerPc(c)

(* C15: while a request waits for the issuer to answer its token request, every other
   request that has not ended is able to take a step. *)
C15_FetchDoesNotBlock ==
  \A r \in Requests, r2 \in Requests :
    (AwaitsIssuer(r) /\ r2 # r /\ pc[r2] \notin {"ok", "error"}) => ENABLED RequestStep(r2)

(* the scope get_token is called for by the caller that holds closure c *)
CallerScope(c) == IF c = ClientClosure THEN CognitiveScope ELSE SessionsScope

(* the step in which a caller that found its token absent or expired gets the issuer's
   answer *)
RefreshReturnStep(r, c) == pc[r] = IssuerPc(c) /\ pc'[r] = DeliveredPc(c)

(* C16: whatever the interleaving of the callers that find the token absent or
   expired, each of them returns a token issued for its scope that is unexpired when
   issued, its slot then holds that freshly issued token and no other caller's slot is
   touched, and there are never more issuer calls than calls of get_token. *)
C16_RefreshRacesTolerated ==
  /\ [](\A r \in Requests, c \in Closures :
          /\ issuerCalls[r][c] <= callbackCalls[r][c]
          /\ auth_token[r][c] # NoToken
               => (/\ auth_token[r][c].scope = CallerScope(c)
                   /\ \E k \in 1..issuerCalls[r][c] : auth_token[r][c].id = <<r, c, k>>))
  /\ [][\A r \in Requests, c \in Closures :
          RefreshReturnStep(r, c)
            => (/\ returned'[r][c].scope = CallerScope(c)
                /\ returned'[r][c].id = <<r, c, issuerCalls[r][c]>>
                /\ now < returned'[r][c].expires_on
                /\ auth_token'[r][c] = returned'[r][c]
                /\ \A r2 \in Requests, c2 \in Closures :
                     <<r2, c2>> # <<r, c>> => auth_token'[r2][c2] = auth_token[r2][c2])]_vars

(* two requests both found no token for the cognitive-services scope and both have
   been answered by the issuer, each with its own token *)
C16_Witness ==
  \E r \in Requests, r2 \in Requests :
    /\ r # r2
    /\ pc[r] = "completion" /\ pc[r2] = "completion"
    /\ issuerCalls[r][ClientClosure] = 1 /\ issuerCalls[r2][ClientClosure] = 1
    /\ callbackCalls[r][ClientClosure] = 1 /\ callbackCalls[r2][ClientClosure] = 1
    /\ auth_token[r][ClientClosure] = returned[r][ClientClosure]
    /\ auth_token[r2][ClientClosure] = returned[r2][ClientClosure]
    /\ auth_token[r][ClientClosure] # auth_token[r2][ClientClosure]
    /\ now < auth_token[r][ClientClosure].expires_on
    /\ now < auth_token[r2][ClientClosure].expires_on

(* the step in which the handler of request r builds its kernel, client, plugins,
   settings and history *)
StartStep(r) == pc[r] = "start" /\ pc'[r] # "start"

(* C17: whatever earlier or concurrent requests did, a request starts with an empty
   chat history (no tool call, no tool result, no completion made) and with tools
   synthesized from a fresh kernel that holds the execution plugin's functions once;
   starting it changes nothing of the other requests. *)
C17_NoStateBetweenRequests ==
  [][\A r \in Requests :
       StartStep(r)
         => (/\ tool_result'[r] = "none"
             /\ tool_call'[r] = ""
             /\ completionCalls'[r] = 0 /\ toolRequests'[r] = 0 /\ execCalls'[r] = 0
             /\ failed'[r] = "none" /\ errDesc'[r] = <<>>
             /\ Len(tools'[r]) = Len(sessions_functions)
             /\ \A i \in DOMAIN tools'[r] :
                  tools'[r][i].function.name = sessions_functions[i].name
             /\ \A q \in Requests :
                  q # r => (/\ tool_result'[q] = tool_result[q]
                            /\ tool_call'[q] = tool_call[q]
                            /\ tools'[q] = tools[q]
                            /\ pc'[q] = pc[q]
                            /\ completionCalls'[q] = completionCalls[q]
                            /\ (pc[q] # "start" => tools[q] = tools'[r])))]_vars

(* a request has ended after a tool call whose result was in its history, and a later
   request has started with an empty history and the same tools *)
C17_Witness ==
  \E r \in Requests, q \in Requests :
    /\ pc[q] = "ok" /\ tool_result[q] # "none" /\ toolRequests[q] > 0
    /\ pc[r] = "llm_auth" /\ completionCalls[r] = 0
    /\ tool_result[r] = "none" /\ tool_call[r] = ""
    /\ tools[r] = tools[q]

(* the step in which the issuer rejects the token request of closure c of request r *)
RejectStep(r, c) == pc[r] = IssuerPc(c) /\ pc'[r] # IssuerPc(c) /\ pc'[r] # DeliveredPc(c)

(* C18: when the issuer rejects a token request the slot keeps its content, empty or
   the expired token, and nothing is returned; the slot then still asks for a refresh,
   so the next call of that closure, made after a rejected one, contacts the issuer
   again. *)
C18_FailedRefreshNotRemembered ==
  /\ [](\A r \in Requests, c \in Closures :
          pc[r] = IssuerPc(c)
            => (auth_token[r][c] = NoToken \/ auth_token[r][c].expires_on < now))
  /\ [][\A r \in Requests, c \in Closures :
          /\ RejectStep(r, c)
               => (/\ auth_token'[r][c] = auth_token[r][c]
                   /\ returned'[r][c] = returned[r][c]
                   /\ (auth_token'[r][c] = NoToken \/ auth_token'[r][c].expires_on < now'))
          /\ (CallStep(r, c) /\ c = ToolClosure /\ tool_result[r] = "auth_fail")
               => (/\ pc'[r] = IssuerPc(c)
                   /\ issuerCalls'[r][c] = issuerCalls[r][c] + 1)]_vars

(* the execution tool's token request was rejected with an empty slot, and the next
   call of the closure is waiting for the issuer again *)
C18_Witness ==
  \E r \in Requests :
    /\ pc[r] = "tool_issuer"
    /\ tool_result[r] = "auth_fail"
    /\ auth_token[r][ToolClosure] = NoToken
    /\ callbackCalls[r][ToolClosure] = 2
    /\ issuerCalls[r][ToolClosure] = 2

(* sessions-scope issuer calls of request r *)
SessionsIssuerCalls(r) ==
  (IF ClosureScope(ClientClosure) = SessionsScope THEN issuerCalls[r][ClientClosure] ELSE 0)
  + (IF ClosureScope(ToolClosure) = SessionsScope THEN issuerCalls[r][ToolClosure] ELSE 0)

(* C19: a request makes no more sessions-scope issuer calls than the LLM backend has
   requested tool calls in it, none when there was no tool-call request; a
   sessions-scope issuer call is made only for a tool call that was requested and is
   being served. *)
C19_SessionsTokenOnDemand ==
  /\ [](\A r \in Requests :
          /\ SessionsIssuerCalls(r) <= toolRequests[r]
          /\ toolRequests[r] = 0 => SessionsIssuerCalls(r) = 0
          /\ \A c \in Closures :
               (auth_token[r][c] # NoToken /\ auth_token[r][c].scope = SessionsScope)
                 => toolRequests[r] > 0)
  /\ [][\A r \in Requests, c \in Closures :
          (ClosureScope(c) = SessionsScope /\ issuerCalls'[r][c] # issuerCalls[r][c])
            => (/\ toolRequests[r] > 0
                /\ tool_call[r] # ""
                /\ pc[r] = "tool_auth"
                /\ SessionsIssuerCalls(r) < toolRequests[r])]_vars

(* one request ended with its answer without a tool-call request and without a
   sessions-scope issuer call; another made one for its one tool-call request *)
C19_Witness ==
  \E r \in Requests, q \in Requests :
    /\ pc[r] = "ok" /\ toolRequests[r] = 0 /\ completionCalls[r] = 1
    /\ SessionsIssuerCalls(r) = 0 /\ auth_token[r][ToolClosure] = NoToken
    /\ toolRequests[q] = 1 /\ SessionsIssuerCalls(q) = 1
    /\ auth_token[q][ToolClosure].scope = SessionsScope

(* request r has ended: chat returned {"output": ...} or raised *)
Ended(r) == pc[r] \in {"ok", "error"}

(* C20: every request that has started eventually ends, with the 200 response or with
   an error, never both: the outcome once reached does not change, a 200 response is
   given only when no step of the request failed, and a request that has ended takes
   no further step. *)
C20_EveryRequestEnds ==
  /\ \A r \in Requests : InFlight(r) ~> Ended(r)
  /\ [](\A r \in Requests :
          /\ pc[r] = "ok" => failed[r] = "none"
          /\ pc[r] = "error" => failed[r] # "none")
  /\ [][\A r \in Requests : Ended(r) => pc'[r] = pc[r]]_vars

(* one request has ended with the 200 response after a tool call, another with an
   error *)
C20_Witness ==
  \E r \in Requests, q \in Requests :
    /\ pc[r] = "ok" /\ toolRequests[r] > 0 /\ execCalls[r] > 0
    /\ pc[q] = "error"

====
